---- MODULE Spec2Model ----
(***************************************************************************)
(* A model of bmpiokit: the UTF-16 to UTF-8 transcoder of src/unicode.c    *)
(* and the USB string descriptor retrieval and device scan of              *)
(* src/bmpiokit.c.                                                         *)
(*                                                                         *)
(* Four specifications share the module:                                   *)
(*   SpecUtf      utf8FromUtf16 applied to bounded code-unit sequences     *)
(*   SpecFetch    requestStringDescriptor applied to every declared length *)
(*                and code-unit count                                      *)
(*   SpecResolve  requestStringFromDevice applied to every pair of device  *)
(*                answers and of heap answers                              *)
(*   Spec         the device loop of main()                                *)
(* Bytes are naturals 0..255, code units naturals 0..65535. A C string is  *)
(* a record [isNull, bytes]; bytes holds the heap block's bytes.           *)
(* The heap may refuse the calloc() and malloc() whose results the source  *)
(* tests (bmpiokit.c line 192, unicode.c line 63); strdup() of the four    *)
(* byte placeholder is taken to succeed.                                   *)
(***************************************************************************)
EXTENDS Integers, Sequences, FiniteSets, TLC

VARIABLES
    utf16String,    \* SpecUtf: the code units handed to utf8FromUtf16
    utfMallocOk,    \* SpecUtf: whether malloc() can serve the output buffer
    utf8Result,     \* SpecUtf: what utf8FromUtf16 returned (Pending before the call)
    fetchLength,    \* SpecFetch: the code-unit count handed to requestStringDescriptor
    fetchDeclared,  \* SpecFetch: byte 0 of the device's answer, its declared length
    fetchOut,       \* SpecFetch: the outcome of requestStringDescriptor (Pending before)
    resolveIn,      \* SpecResolve: the index asked for and what the device and heap answer
    resolveOut,     \* SpecResolve: the outcome of requestStringFromDevice (Pending before)
    pc,             \* Spec: where main() stands
    iterValid,      \* Spec: what IOIteratorIsValid(deviceIterator) answers
    remaining,      \* Spec: the services deviceIterator has yet to yield
    taken,          \* Spec: the services IOIteratorNext has yielded
    usbDevice,      \* Spec: the device interface of the current iteration
    strings,        \* Spec: manufacturer, product, serialNumber as far as requested
    log,            \* Spec: the calls made on usbDevice, in order
    diag,           \* Spec: the messages printed for the current device
    printed,        \* Spec: the addresses of the devices whose summary was printed
    summary,        \* Spec: the summary line printed last in this iteration
    exitCode        \* Spec: what main() returned (-1 while it runs)

utfVars == <<utf16String, utfMallocOk, utf8Result>>
fetchVars == <<fetchLength, fetchDeclared, fetchOut>>
resolveVars == <<resolveIn, resolveOut>>

scanVars == <<pc, iterValid, remaining, taken, usbDevice, strings, log, diag, printed,
              summary, exitCode>>

vars == <<utf16String, utfMallocOk, utf8Result, fetchLength, fetchDeclared, fetchOut,
          resolveIn, resolveOut, pc, iterValid, remaining, taken, usbDevice, strings,
          log, diag, printed, summary, exitCode>>

(***************************************************************************)
(* Bounds of the model                                                     *)
(***************************************************************************)
\* Longest code-unit sequence handed to utf8FromUtf16 in SpecUtf
MaxUnits == 3
\* SpecFetch hands requestStringDescriptor every count up to this many above
\* the largest one it accepts
MaxOverLength == 2
\* Most services the device iterator of Spec holds
MaxDevices == 2
\* Largest code-unit count whose fetched buffer is decoded when the
\* terminator of the result is checked in SpecFetch
MaxDecoded == 8

(***************************************************************************)
(* C integer arithmetic                                                    *)
(***************************************************************************)
RECURSIVE BitAnd(_, _)
BitAnd(a, b) ==
    IF a = 0 \/ b = 0 THEN 0
    ELSE ((a % 2) * (b % 2)) + 2 * BitAnd(a \div 2, b \div 2)

RECURSIVE BitOr(_, _)
BitOr(a, b) ==
    IF a = 0 THEN b
    ELSE IF b = 0 THEN a
    ELSE (IF (a % 2) + (b % 2) > 0 THEN 1 ELSE 0) + 2 * BitOr(a \div 2, b \div 2)

Shr(a, n) == a \div (2 ^ n)
Shl(a, n) == a * (2 ^ n)
U8(x) == x % 256
U16(x) == x % 65536

\* A byte of malloc()ed storage that was never written
Uninit == -1

(***************************************************************************)
(* src/unicode.c                                                           *)
(***************************************************************************)
\* The read string[index] lies outside the array the caller handed in
\* although it passed safeIndex's own bound check.
safeIndexOutside(string, index, length) ==
    index < length /\ index >= Len(string)

\* safeIndex: UINT16_MAX beyond `length`, the code unit otherwise. A read
\* beyond the array itself is undefined: it yields `wild`, any code unit.
safeIndex(string, index, length, wild) ==
    IF index >= length THEN 65535
    ELSE IF index < Len(string) THEN string[index + 1]
    ELSE wild

\* (uintA & 0xfe00U) == 0xd800U
isHighSurrogate(unit) == BitAnd(unit, 65024) = 55296

\* (unit & 0xfe00U) == 0xdc00U
isLowSurrogate(unit) == BitAnd(unit, 65024) = 56320

\* The extra bytes of a normal character (lines 43-47): one if it needs more
\* than 1 byte, another if it needs more than 2.
normalExtraNoThirdByte(uintA) == IF uintA > 127 THEN 1 ELSE 0
normalExtra(uintA) ==
    (IF uintA > 127 THEN 1 ELSE 0) + (IF uintA > 2047 THEN 1 ELSE 0)

\* The loop of countUnits from `offset` on, `count` bytes counted so far.
RECURSIVE countLoop(_, _, _, _)
countLoop(string, length, offset, count) ==
    IF offset >= length THEN count
    ELSE
        LET uintA == safeIndex(string, offset, length, 0) IN
        IF isHighSurrogate(uintA)
        THEN
            LET uintB == safeIndex(string, offset + 1, length, 0) IN
            IF ~isLowSurrogate(uintB) THEN 0
            ELSE countLoop(string, length, offset + 2, count + 3 + 1)
        ELSE IF isLowSurrogate(uintA) THEN 0
        ELSE countLoop(string, length, offset + 1, count + normalExtra(uintA) + 1)

countUnitsEmptyIsOne(string, length) ==
    IF length = 0 THEN 1 ELSE countLoop(string, length, 0, 0)
countUnits(string, length) == countLoop(string, length, 0, 0)

\* result[offset] = value: a store beyond the allocation is a heap overflow.
store(enc, offset, value) ==
    IF offset < Len(enc.bytes)
    THEN [enc EXCEPT !.bytes[offset + 1] = value, !.written = @ + 1]
    ELSE [enc EXCEPT !.oobWrite = TRUE, !.written = @ + 1]

\* Lines 73-83: the 4 byte sequence of a surrogate pair.
encodePair(enc, outputOffset, uintA, uintB) ==
    LET upper == U16(BitAnd(uintA, 1023) + 64)
        lower == BitAnd(uintB, 1023)
        b0 == BitOr(240, BitAnd(U8(Shr(upper, 8)), 7))
        b1 == BitOr(128, BitAnd(U8(Shr(upper, 2)), 63))
        b2 == BitOr(BitOr(128, BitAnd(U8(Shl(upper, 4)), 48)), BitAnd(U8(Shr(lower, 6)), 15))
        b3 == BitOr(128, U8(BitAnd(lower, 63)))
    IN  store(store(store(store(enc, outputOffset, b0), outputOffset + 1, b1),
                    outputOffset + 2, b2), outputOffset + 3, b3)

\* Lines 87-104: a simple character, in 1, 2 or 3 bytes. Yields the encoder
\* state and the extra output bytes used.
encodeSimpleShift5(enc, outputOffset, uintA) ==
    IF uintA <= 127
    THEN [enc |-> store(enc, outputOffset, U8(uintA)), extra |-> 0]
    ELSE IF uintA <= 2047
    THEN [enc |-> store(store(enc, outputOffset, BitOr(192, BitAnd(U8(Shr(uintA, 5)), 31))),
                        outputOffset + 1, BitOr(128, U8(BitAnd(uintA, 63)))),
          extra |-> 1]
    ELSE [enc |-> store(store(store(enc, outputOffset,
                                    BitOr(224, BitAnd(U8(Shr(uintA, 12)), 15))),
                              outputOffset + 1, BitOr(128, BitAnd(U8(Shr(uintA, 6)), 63))),
                        outputOffset + 2, BitOr(128, U8(BitAnd(uintA, 63)))),
          extra |-> 2]
encodeSimple(enc, outputOffset, uintA) ==
    IF uintA <= 127
    THEN [enc |-> store(enc, outputOffset, U8(uintA)), extra |-> 0]
    ELSE IF uintA <= 2047
    THEN [enc |-> store(store(enc, outputOffset, BitOr(192, BitAnd(U8(Shr(uintA, 6)), 31))),
                        outputOffset + 1, BitOr(128, U8(BitAnd(uintA, 63)))),
          extra |-> 1]
    ELSE [enc |-> store(store(store(enc, outputOffset,
                                    BitOr(224, BitAnd(U8(Shr(uintA, 12)), 15))),
                              outputOffset + 1, BitOr(128, BitAnd(U8(Shr(uintA, 6)), 63))),
                        outputOffset + 2, BitOr(128, U8(BitAnd(uintA, 63)))),
          extra |-> 2]

\* The encode loop of utf8FromUtf16 (lines 66-106). The second unit of a pair
\* is read with utf8Length as safeIndex's bound (line 76).
RECURSIVE encodeLoop(_, _, _, _, _, _, _)
encodeLoop(string, utf16Length, utf8Length, inputOffset, outputOffset, enc, wild) ==
    IF inputOffset >= utf16Length THEN [enc EXCEPT !.end = outputOffset]
    ELSE
        LET uintA == safeIndex(string, inputOffset, utf16Length, wild) IN
        IF isHighSurrogate(uintA)
        THEN
            LET uintB == safeIndex(string, inputOffset + 1, utf8Length, wild)
                outside == safeIndexOutside(string, inputOffset + 1, utf8Length)
                enc1 == [enc EXCEPT !.oobRead = @ \/ outside]
            IN  encodeLoop(string, utf16Length, utf8Length, inputOffset + 2,
                           outputOffset + 3 + 1,
                           encodePair(enc1, outputOffset, uintA, uintB), wild)
        ELSE
            LET r == encodeSimple(enc, outputOffset, uintA) IN
            encodeLoop(string, utf16Length, utf8Length, inputOffset + 1,
                       outputOffset + r.extra + 1, r.enc, wild)

NullString ==
    [isNull |-> TRUE, bytes |-> <<>>, oobRead |-> FALSE, oobWrite |-> FALSE,
     written |-> 0, end |-> 0]

\* utf8FromUtf16: NULL when countUnits yields 0 or malloc fails, the encoded
\* block otherwise. mallocOk is whether malloc(utf8Length) returns storage.
utf8FromUtf16(string, utf16Length, mallocOk, wild) ==
    LET utf8Length == countUnits(string, utf16Length) IN
    IF utf8Length = 0 THEN NullString
    ELSE IF ~mallocOk THEN NullString
    ELSE encodeLoop(string, utf16Length, utf8Length, 0, 0,
                    [isNull |-> FALSE, bytes |-> [i \in 1..utf8Length |-> Uninit],
                     oobRead |-> FALSE, oobWrite |-> FALSE, written |-> 0, end |-> 0],
                    wild)

(***************************************************************************)
(* src/bmpiokit.c: the string descriptor protocol                          *)
(***************************************************************************)
\* kUSBStringDesc, the descriptor type tag of a string descriptor
kUSBStringDesc == 3
\* The largest code-unit count requestStringDescriptor accepts
MaxStringLength == 127
\* sizeof(data), the wire buffer of requestStringDescriptor
DataSize == 256
\* wIndex of both requests, the language identifier (0x0409)
LanguageId == 1033
\* noDataTimeout and completionTimeout of both requests
NoDataTimeout == 20
CompletionTimeout == 100

Min(x, y) == IF x < y THEN x ELSE y

Zeros(n) == [i \in 1..n |-> 0]

\* The IOUSBDevRequestTO both functions build: a standard device-to-host
\* GET_DESCRIPTOR of string descriptor `index`, asking for wLength bytes.
stringRequest(index, wLength) ==
    [bmRequestType |-> "In|Standard|Device", bRequest |-> "kUSBRqGetDescriptor",
     wValue |-> BitOr(U16(Shl(kUSBStringDesc, 8)), index), wIndex |-> LanguageId,
     wLength |-> wLength, noDataTimeout |-> NoDataTimeout,
     completionTimeout |-> CompletionTimeout]

\* DeviceRequestTO: the transfer stores the bytes the device sent, at most
\* wLength of them, at the start of pData; the rest of pData is untouched.
\* A response is [result, bytes]: the IOReturn and the bytes sent.
deviceRequestData(response, wLength, pData) ==
    LET stored == Min(Len(response.bytes), wLength)
        bytes == response.bytes
    IN  [k \in 1..Len(pData) |-> IF k <= stored THEN bytes[k] ELSE pData[k]]

\* (header.bLength - 2U) / 2U in unsigned int: below 2 the subtraction wraps
\* around 2^32.
lengthInUnits(bLength) ==
    IF bLength >= 2 THEN (bLength - 2) \div 2
    ELSE 2147483647 - (((2 - bLength) - 1) \div 2)

\* requestStringLength: one transfer of sizeof(header) = 2 bytes; 0 unless it
\* succeeds with the string descriptor tag in byte 1.
requestStringLengthAnyTag(response, index) ==
    LET request == stringRequest(index, 2)
        header == deviceRequestData(response, request.wLength, Zeros(2))
    IN  IF response.result # "kIOReturnSuccess"
        THEN [length |-> 0, requests |-> <<request>>]
        ELSE [length |-> lengthInUnits(header[1]), requests |-> <<request>>]
requestStringLength(response, index) ==
    LET request == stringRequest(index, 2)
        header == deviceRequestData(response, request.wLength, Zeros(2))
    IN  IF response.result # "kIOReturnSuccess" \/ header[2] # kUSBStringDesc
        THEN [length |-> 0, requests |-> <<request>>]
        ELSE [length |-> lengthInUnits(header[1]), requests |-> <<request>>]

\* MIN(data[0U], length * 2U), the number of bytes memcpy moves
validBytesDeclared(data0, length) == data0
validBytesPlusHeader(data0, length) == Min(data0, length * 2) + 2
validBytes(data0, length) == Min(data0, length * 2)

\* length > 127U
lengthTooLongAbove128(length) == length > MaxStringLength + 1
lengthTooLong(length) == length > MaxStringLength

\* memcpy(string, data + 2U, n): bytes data[2 .. 2+n-1] go to the start of
\* string; a byte beyond the end of string is a buffer overflow.
memcpyFromData(string, data, n) ==
    LET size == Len(data) IN
    [k \in 1..Len(string) |->
        IF k > n THEN string[k] ELSE IF 2 + k <= size THEN data[2 + k] ELSE Uninit]

\* requestStringDescriptor. `string` is the caller's buffer as bytes, two per
\* code unit. Yields the IOReturn, the buffer afterwards, the requests made,
\* and the offsets of data that memcpy read.
requestStringDescriptor(response, index, string, length) ==
    IF lengthTooLong(length)
    THEN [result |-> "kIOReturnBadArgument", string |-> string, requests |-> <<>>,
          copied |-> {}, overflow |-> FALSE]
    ELSE
        LET request == stringRequest(index, U16((length * 2) + 2))
            data == deviceRequestData(response, request.wLength, Zeros(DataSize))
            n == validBytes(data[1], length)
        IN  IF response.result # "kIOReturnSuccess"
            THEN [result |-> response.result, string |-> string,
                  requests |-> <<request>>, copied |-> {}, overflow |-> FALSE]
            ELSE IF data[2] # kUSBStringDesc
            THEN [result |-> "kIOReturnError", string |-> string,
                  requests |-> <<request>>, copied |-> {}, overflow |-> FALSE]
            ELSE [result |-> "kIOReturnSuccess",
                  string |-> memcpyFromData(string, data, n),
                  requests |-> <<request>>,
                  copied |-> {2 + k : k \in 0..(n - 1)},
                  overflow |-> n > Len(string) \/ 2 + n > DataSize]

(***************************************************************************)
(* src/bmpiokit.c: requestStringFromDevice                                 *)
(***************************************************************************)
\* strdup(text): a fresh NUL terminated copy. The copy itself is taken to
\* succeed; the source never tests it.
strdup(text) == [isNull |-> FALSE, bytes |-> text \o <<0>>]

\* "---"
Placeholder == strdup(<<45, 45, 45>>)
NullPointer == [isNull |-> TRUE, bytes |-> <<>>]

\* index == 0U (line 178)
indexIsInvalidNever(index) == FALSE
indexIsInvalid(index) == index = 0

\* length == 0U (line 183)
lengthIsZeroNever(length) == FALSE
lengthIsZero(length) == length = 0

\* calloc(sizeof(char16_t), length + 1U) as bytes, all zero. A block too long
\* for requestStringDescriptor to accept is never read or written, and is
\* left out.
callocUtf16String(length) ==
    IF length > DataSize THEN <<>> ELSE Zeros(2 * (length + 1))

\* The char16_t values of a buffer of bytes (little-endian, as on every
\* target of the program)
unitsOf(bytes) ==
    LET count == Len(bytes) \div 2 IN
    [i \in 1..count |-> bytes[(2 * i) - 1] + (256 * bytes[2 * i])]

\* The char * handed back for the result of utf8FromUtf16 (lines 210-212)
decodedValue(decoded) == [isNull |-> decoded.isNull, bytes |-> decoded.bytes]

\* requestStringFromDevice. probe and fetch are the device's answers to the
\* two transfers, callocOk and mallocOk whether the heap serves the UTF-16
\* buffer and the UTF-8 result. Yields the string returned, the requests
\* made in order, the messages printed, the return statement taken, and the
\* code units decoded.
requestStringFromDevice(index, probe, callocOk, fetch, mallocOk, wild) ==
    IF indexIsInvalid(index)
    THEN [value |-> Placeholder, requests |-> <<>>, messages |-> {},
          exit |-> "index", length |-> 0, units |-> <<>>, decoded |-> NullString]
    ELSE
        LET lengthCall == requestStringLength(probe, index)
            length == lengthCall.length
        IN
        IF lengthIsZero(length)
        THEN [value |-> Placeholder, requests |-> lengthCall.requests,
              messages |-> {"Failed to retreive string length for string descriptor"},
              exit |-> "length", length |-> length, units |-> <<>>,
              decoded |-> NullString]
        ELSE IF ~callocOk
        THEN [value |-> NullPointer, requests |-> lengthCall.requests,
              messages |-> {"Failed to allocate storage for string from string descriptor"},
              exit |-> "storage", length |-> length, units |-> <<>>,
              decoded |-> NullString]
        ELSE
            LET call == requestStringDescriptor(fetch, index,
                                                callocUtf16String(length), length)
                requests == lengthCall.requests \o call.requests
            IN
            IF call.result # "kIOReturnSuccess"
            THEN [value |-> Placeholder, requests |-> requests,
                  messages |-> {"Failed to retreive string descriptor"},
                  exit |-> "descriptor", length |-> length, units |-> <<>>,
                  decoded |-> NullString]
            ELSE
                LET utf16 == unitsOf(call.string)
                    utf8String == utf8FromUtf16(utf16, length + 1, mallocOk, wild)
                IN  [value |-> decodedValue(utf8String), requests |-> requests,
                     messages |-> {}, exit |-> "decoded", length |-> length,
                     units |-> utf16, decoded |-> utf8String]

(***************************************************************************)
(* SpecUtf: utf8FromUtf16 on every sequence of at most MaxUnits units      *)
(***************************************************************************)
\* Code units at the edges of every class the transcoder distinguishes:
\* 0x0000 0x007F 0x0080 0x07FF 0x0800 0xD7FF
\* 0xD800 0xD83D 0xD9FF 0xDA00 0xDBFF 0xDC00 0xDDFF 0xDE00 0xDFFF 0xE000 0xFFFF
UnitSamples ==
    {0, 127, 128, 2047, 2048, 55295,
     55296, 55357, 55807, 55808, 56319, 56320, 56831, 56832, 57343, 57344, 65535}

\* What an out-of-bounds read of the input may return
WildUnits == {0, 56320}

RECURSIVE SeqsUpTo(_, _)
SeqsUpTo(S, n) ==
    IF n = 0 THEN {<<>>}
    ELSE LET shorter == SeqsUpTo(S, n - 1) IN
         shorter \cup {Append(s, x) : s \in {t \in shorter : Len(t) = n - 1}, x \in S}

Pending == [pending |-> TRUE]

UtfIdle == utf16String = <<>> /\ utfMallocOk = TRUE /\ utf8Result = Pending
FetchIdle == fetchLength = 0 /\ fetchDeclared = 0 /\ fetchOut = Pending
ResolveIdle == resolveIn = Pending /\ resolveOut = Pending
NoDevice == [address |-> 0, vid |-> 0, pid |-> 0, indexes |-> <<0, 0, 0>>, held |-> FALSE]
NoSummary ==
    [address |-> 0, product |-> NullPointer, manufacturer |-> NullPointer,
     serialNumber |-> NullPointer]
ScanIdle ==
    /\ pc = "idle" /\ iterValid = TRUE /\ remaining = 0 /\ taken = 0
    /\ usbDevice = NoDevice /\ strings = <<>> /\ log = <<>> /\ diag = {}
    /\ printed = <<>> /\ summary = NoSummary /\ exitCode = -1

InitUtf ==
    /\ utf16String \in SeqsUpTo(UnitSamples, MaxUnits)
    /\ utfMallocOk \in BOOLEAN
    /\ utf8Result = Pending
    /\ FetchIdle
    /\ ResolveIdle
    /\ ScanIdle

\* One call utf8FromUtf16(utf16String, length of utf16String)
Decode ==
    /\ utf8Result = Pending
    /\ \E wild \in WildUnits :
           utf8Result' = utf8FromUtf16(utf16String, Len(utf16String), utfMallocOk, wild)
    /\ UNCHANGED <<utf16String, utfMallocOk>>
    /\ UNCHANGED <<fetchVars, resolveVars, scanVars>>

NextUtf == Decode

SpecUtf == InitUtf /\ [][NextUtf]_vars

(***************************************************************************)
(* SpecFetch: requestStringDescriptor on every declared length 0..255 and  *)
(* every code-unit count 0..MaxStringLength + MaxOverLength                *)
(***************************************************************************)
\* The payload byte a device sends at offset k of its answer (never 0, so a
\* copied byte differs from the zeroes of a fresh buffer)
PayloadByte(k) == ((k * 37) % 255) + 1

\* What a device may answer to a request of wLength bytes:
\*   "ok"        a string descriptor declaring `declared` bytes, cut to wLength
\*   "okFull"    the same header followed by payload up to wLength bytes
\*   "wrongTag"  a descriptor of another type (2, a configuration descriptor)
\*   "error"     the transfer fails (a timeout) and nothing arrives
ResponseKinds == {"ok", "okFull", "wrongTag", "error"}

deviceResponse(kind, declared, wLength) ==
    LET sent == IF kind = "okFull" \/ declared < 2 THEN wLength
                ELSE Min(wLength, declared)
        tag == IF kind = "wrongTag" THEN 2 ELSE kUSBStringDesc
    IN  IF kind = "error"
        THEN [result |-> "kIOReturnTimeout", bytes |-> <<>>]
        ELSE [result |-> "kIOReturnSuccess",
              bytes |-> [k \in 1..sent |->
                            IF k = 1 THEN declared ELSE IF k = 2 THEN tag
                            ELSE PayloadByte(k - 1)]]

\* The string index SpecFetch asks for
FetchIndex == 1

InitFetch ==
    /\ fetchLength \in 0..(MaxStringLength + MaxOverLength)
    /\ fetchDeclared \in 0..255
    /\ fetchOut = Pending
    /\ UtfIdle
    /\ ResolveIdle
    /\ ScanIdle

\* One call requestStringDescriptor(usbDevice, FetchIndex, string, fetchLength)
\* with string the zeroed buffer of fetchLength + 1 code units that
\* requestStringFromDevice allocates.
Fetch ==
    /\ fetchOut = Pending
    /\ \E kind \in ResponseKinds :
           LET response == deviceResponse(kind, fetchDeclared,
                                          U16((fetchLength * 2) + 2))
               call == requestStringDescriptor(response, FetchIndex,
                                               Zeros(2 * (fetchLength + 1)), fetchLength)
           IN  fetchOut' = [kind |-> kind, call |-> call]
    /\ UNCHANGED <<fetchLength, fetchDeclared>>
    /\ UNCHANGED <<utfVars, resolveVars, scanVars>>

NextFetch == Fetch

SpecFetch == InitFetch /\ [][NextFetch]_vars

(***************************************************************************)
(* SpecResolve: requestStringFromDevice on every index, pair of device     *)
(* answers and pair of heap answers                                        *)
(***************************************************************************)
\* The bytes of code units on the wire (UTF-16LE)
RECURSIVE bytesOf(_)
bytesOf(units) ==
    IF units = <<>> THEN <<>>
    ELSE <<units[1] % 256, units[1] \div 256>> \o bytesOf(Tail(units))

\* The string descriptor of a string: bLength, bDescriptorType, UTF-16LE
stringDescriptor(units) ==
    <<(2 * Len(units)) + 2, kUSBStringDesc>> \o bytesOf(units)

\* Strings a device may hold: "A", "Hello", an e-acute and a euro sign, empty,
\* the pairs D801 DC01 and D83D DE00, a lone low and a lone high surrogate
StringSamples ==
    {<<65>>, <<72, 101, 108, 108, 111>>, <<233, 8364>>, <<>>,
     <<55297, 56321>>, <<55357, 56832>>, <<56320>>, <<56319>>}

\* Answers of a device to one transfer: a failed transfer, the descriptor of
\* a string, a descriptor of another type, and string descriptors whose
\* declared length is 0, 1, odd, or more than they carry.
DeviceAnswers ==
    {[result |-> "kIOReturnTimeout", bytes |-> <<>>]}
    \cup {[result |-> "kIOReturnSuccess", bytes |-> stringDescriptor(s)] :
             s \in StringSamples}
    \cup {[result |-> "kIOReturnSuccess", bytes |-> b] :
             b \in {<<4, 2, 65, 0>>, <<0, kUSBStringDesc>>, <<1, kUSBStringDesc>>,
                    <<5, kUSBStringDesc, 65, 0, 66>>,
                    <<40, kUSBStringDesc, 65, 0>>}}

\* String indices asked for: none, and two real ones
StringIndexes == {0, 1, 3}

InitResolve ==
    /\ resolveIn \in [index : StringIndexes, probe : DeviceAnswers, callocOk : BOOLEAN,
                       fetch : DeviceAnswers, mallocOk : BOOLEAN]
    /\ resolveOut = Pending
    /\ UtfIdle
    /\ FetchIdle
    /\ ScanIdle

\* One call requestStringFromDevice(usbDevice, resolveIn.index)
Resolve ==
    /\ resolveOut = Pending
    /\ \E wild \in WildUnits :
           resolveOut' = requestStringFromDevice(resolveIn.index, resolveIn.probe,
                                                 resolveIn.callocOk, resolveIn.fetch,
                                                 resolveIn.mallocOk, wild)
    /\ UNCHANGED resolveIn
    /\ UNCHANGED <<utfVars, fetchVars, scanVars>>

NextResolve == Resolve

SpecResolve == InitResolve /\ [][NextResolve]_vars

(***************************************************************************)
(* Spec: the device loop of main() (src/bmpiokit.c lines 231-299)          *)
(***************************************************************************)
\* bmdVID and bmdPID (0x1d50, 0x6018)
bmdVID == 7504
bmdPID == 24600

\* Vendor and product ids a yielded service may report: the Black Magic
\* Probe's, and another product of the same vendor
VidPids == {<<bmdVID, bmdPID>>, <<bmdVID, bmdPID - 1>>}

\* Manufacturer, product and serial number string indexes a device may report
IndexTriples == {<<1, 2, 3>>, <<0, 2, 3>>, <<1, 2, 0>>}

\* Answers of a device of the scan to one transfer: a failed transfer, the
\* descriptors of "A", of an empty string and of a lone low surrogate, and a
\* descriptor of another type
ScanAnswers ==
    {[result |-> "kIOReturnTimeout", bytes |-> <<>>]}
    \cup {[result |-> "kIOReturnSuccess", bytes |-> b] :
             b \in {stringDescriptor(<<65>>), stringDescriptor(<<>>),
                    stringDescriptor(<<56320>>), <<4, 2, 65, 0>>}}

\* IOReturn values of the calls main() checks
IOReturns == {"kIOReturnSuccess", "kIOReturnError"}

\* One call on the device interface, as the log keeps it. Of a control
\* transfer the log keeps the request's wValue and wLength, the IOReturn, and
\* the first two bytes of the buffer afterwards (bLength, bDescriptorType);
\* of the other methods, their name.
methodCall(name) ==
    [call |-> name, wValue |-> 0, wLength |-> 0, result |-> "", bLength |-> 0,
     bDescriptorType |-> 0]
transferCall(request, response) ==
    LET header == deviceRequestData(response, request.wLength, Zeros(2)) IN
    [call |-> "DeviceRequestTO", wValue |-> request.wValue, wLength |-> request.wLength,
     result |-> response.result, bLength |-> header[1], bDescriptorType |-> header[2]]
\* The transfers of one requestStringFromDevice: requests[i] was answered by
\* responses[i]
transferCalls(requests, responses) ==
    [i \in 1..Len(requests) |-> transferCall(requests[i], responses[i])]

\* checkResult: the message printed, if any
checkResult(result, action) ==
    IF result # "kIOReturnSuccess" THEN {"Error while " \o action} ELSE {}

Init ==
    /\ pc = "start"
    /\ iterValid \in BOOLEAN
    /\ remaining \in 0..MaxDevices
    /\ taken = 0
    /\ usbDevice = NoDevice
    /\ strings = <<>>
    /\ log = <<>>
    /\ diag = {}
    /\ printed = <<>>
    /\ summary = NoSummary
    /\ exitCode = -1
    /\ UtfIdle
    /\ FetchIdle
    /\ ResolveIdle

\* Lines 231-236: leave at once when the iterator is not valid
NoProbesFound ==
    /\ pc = "start"
    /\ ~iterValid
    /\ diag' = {"No BMPs found on system"}
    /\ pc' = "done"
    /\ exitCode' = 1
    /\ UNCHANGED <<iterValid, remaining, taken, usbDevice, strings, log, printed, summary>>
    /\ UNCHANGED <<utfVars, fetchVars, resolveVars>>

EnterLoop ==
    /\ pc = "start"
    /\ iterValid
    /\ pc' = "loop"
    /\ UNCHANGED <<iterValid, remaining, taken, usbDevice, strings, log, diag, printed,
                   summary, exitCode>>
    /\ UNCHANGED <<utfVars, fetchVars, resolveVars>>

\* The I/O registry changes while the scan runs, which makes the iterator
\* invalid; the program sees it at its next loop test.
RegistryChanges ==
    /\ pc = "loop"
    /\ iterValid
    /\ iterValid' = FALSE
    /\ UNCHANGED <<pc, remaining, taken, usbDevice, strings, log, diag, printed, summary,
                   exitCode>>
    /\ UNCHANGED <<utfVars, fetchVars, resolveVars>>

\* Line 239: the loop ends when the iterator is no longer valid
LoopExit ==
    /\ pc = "loop"
    /\ ~iterValid
    /\ pc' = "done"
    /\ exitCode' = 0
    /\ UNCHANGED <<iterValid, remaining, taken, usbDevice, strings, log, diag, printed,
                   summary>>
    /\ UNCHANGED <<utfVars, fetchVars, resolveVars>>

\* Lines 241-243: IOIteratorNext yields no service, openDevice returns NULL
IteratorExhausted ==
    /\ pc = "loop"
    /\ iterValid
    /\ remaining = 0
    /\ pc' = "done"
    /\ exitCode' = 0
    /\ UNCHANGED <<iterValid, remaining, taken, usbDevice, strings, log, diag, printed,
                   summary>>
    /\ UNCHANGED <<utfVars, fetchVars, resolveVars>>

\* Lines 241-243 with openDevice (72-108) failing on the service yielded
OpenDeviceFails ==
    /\ pc = "loop"
    /\ iterValid
    /\ remaining > 0
    /\ remaining' = remaining - 1
    /\ taken' = taken + 1
    /\ usbDevice' = NoDevice
    /\ strings' = <<>>
    /\ log' = <<>>
    /\ summary' = NoSummary
    /\ \E message \in {"Failed to create client plug-in binding",
                        "Failed to create an interface to the device"} :
           diag' = {message}
    /\ pc' = "done"
    /\ exitCode' = 0
    /\ UNCHANGED <<iterValid, printed>>
    /\ UNCHANGED <<utfVars, fetchVars, resolveVars>>

\* Lines 241-243 with openDevice returning the interface of the service
NextDevice ==
    /\ pc = "loop"
    /\ iterValid
    /\ remaining > 0
    /\ remaining' = remaining - 1
    /\ taken' = taken + 1
    /\ \E ids \in VidPids :
           usbDevice' = [address |-> taken + 1, vid |-> ids[1], pid |-> ids[2],
                         indexes |-> <<0, 0, 0>>, held |-> TRUE]
    /\ strings' = <<>>
    /\ log' = <<>>
    /\ diag' = {}
    /\ summary' = NoSummary
    /\ pc' = "vidpid"
    /\ UNCHANGED <<iterValid, printed, exitCode>>
    /\ UNCHANGED <<utfVars, fetchVars, resolveVars>>

\* vid != bmdVID || pid != bmdPID
idsDiffer(vid, pid) == vid # bmdVID \/ pid # bmdPID

\* Lines 245-255: another device than a Black Magic Probe is released and
\* the loop is left
WrongDeviceNotReleased ==
    /\ pc = "vidpid"
    /\ idsDiffer(usbDevice.vid, usbDevice.pid)
    /\ log' = log \o <<methodCall("GetDeviceVendor"), methodCall("GetDeviceProduct")>>
    /\ pc' = "done"
    /\ exitCode' = 0
    /\ UNCHANGED <<iterValid, remaining, taken, usbDevice, strings, diag, printed, summary>>
    /\ UNCHANGED <<utfVars, fetchVars, resolveVars>>
WrongDevice ==
    /\ pc = "vidpid"
    /\ idsDiffer(usbDevice.vid, usbDevice.pid)
    /\ log' = log \o <<methodCall("GetDeviceVendor"), methodCall("GetDeviceProduct"),
                        methodCall("Release")>>
    /\ usbDevice' = [usbDevice EXCEPT !.held = FALSE]
    /\ pc' = "done"
    /\ exitCode' = 0
    /\ UNCHANGED <<iterValid, remaining, taken, strings, diag, printed, summary>>
    /\ UNCHANGED <<utfVars, fetchVars, resolveVars>>

RightDevice ==
    /\ pc = "vidpid"
    /\ ~idsDiffer(usbDevice.vid, usbDevice.pid)
    /\ log' = log \o <<methodCall("GetDeviceVendor"), methodCall("GetDeviceProduct")>>
    /\ pc' = "info"
    /\ UNCHANGED <<iterValid, remaining, taken, usbDevice, strings, diag, printed,
                   summary, exitCode>>
    /\ UNCHANGED <<utfVars, fetchVars, resolveVars>>

\* Lines 257-265: the address and the three string indexes. A failed call
\* is reported and leaves its variable as it was, with any value.
ReadInfo ==
    /\ pc = "info"
    /\ \E indexes \in IndexTriples, result \in IOReturns :
           /\ usbDevice' = [usbDevice EXCEPT !.indexes = indexes]
           /\ diag' = diag \cup checkResult(result, "grabbing manufacturer string index")
    /\ log' = log \o <<methodCall("GetDeviceAddress"),
                        methodCall("USBGetManufacturerStringIndex"),
                        methodCall("USBGetProductStringIndex"),
                        methodCall("USBGetSerialNumberStringIndex")>>
    /\ pc' = "open"
    /\ UNCHANGED <<iterValid, remaining, taken, strings, printed, summary, exitCode>>
    /\ UNCHANGED <<utfVars, fetchVars, resolveVars>>

\* Line 268: USBDeviceOpen, its failure only reported
OpenUsbDeviceLeavesOnFailure ==
    /\ pc = "open"
    /\ \E result \in IOReturns :
           /\ diag' = diag \cup checkResult(result, "opening USB device")
           /\ pc' = IF result = "kIOReturnSuccess" THEN "manufacturer" ELSE "done"
           /\ exitCode' = IF result = "kIOReturnSuccess" THEN exitCode ELSE 0
    /\ log' = Append(log, methodCall("USBDeviceOpen"))
    /\ UNCHANGED <<iterValid, remaining, taken, usbDevice, strings, printed, summary>>
    /\ UNCHANGED <<utfVars, fetchVars, resolveVars>>
OpenUsbDevice ==
    /\ pc = "open"
    /\ \E result \in IOReturns : diag' = diag \cup checkResult(result, "opening USB device")
    /\ log' = Append(log, methodCall("USBDeviceOpen"))
    /\ pc' = "manufacturer"
    /\ UNCHANGED <<iterValid, remaining, taken, usbDevice, strings, printed, summary,
                   exitCode>>
    /\ UNCHANGED <<utfVars, fetchVars, resolveVars>>

\* What one call requestStringFromDevice(usbDevice, index) can come to, over
\* every answer of the device to the probe and to the fetch and of the heap
\* to calloc() and malloc(): the string returned, the transfers made with
\* what they brought, and the messages printed. Tabulated for the string
\* indexes of IndexTriples.
ScanOutcomes ==
    [index \in {triple[k] : triple \in IndexTriples, k \in 1..3} |->
        {LET call == requestStringFromDevice(index, probe, callocOk, fetch, mallocOk, wild)
         IN  [value |-> call.value,
              transfers |-> transferCalls(call.requests, <<probe, fetch>>),
              messages |-> call.messages] :
            probe \in ScanAnswers, fetch \in ScanAnswers, callocOk \in BOOLEAN,
            mallocOk \in BOOLEAN, wild \in WildUnits}]

\* Lines 271-273: one call of requestStringFromDevice
RequestString(which, index, next) ==
    /\ pc = which
    /\ \E call \in ScanOutcomes[index] :
           /\ strings' = Append(strings, call.value)
           /\ log' = log \o call.transfers
           /\ diag' = diag \cup call.messages
    /\ pc' = next
    /\ UNCHANGED <<iterValid, remaining, taken, usbDevice, printed, summary, exitCode>>
    /\ UNCHANGED <<utfVars, fetchVars, resolveVars>>

RequestManufacturer == RequestString("manufacturer", usbDevice.indexes[1], "product")
RequestProduct == RequestString("product", usbDevice.indexes[2], "serialNumber")
RequestSerialNumber == RequestString("serialNumber", usbDevice.indexes[3], "close")

\* Line 276: USBDeviceClose, its failure only reported
CloseUsbDevice ==
    /\ pc = "close"
    /\ \E result \in IOReturns : diag' = diag \cup checkResult(result, "closing USB device")
    /\ log' = Append(log, methodCall("USBDeviceClose"))
    /\ pc' = "check"
    /\ UNCHANGED <<iterValid, remaining, taken, usbDevice, strings, printed, summary,
                   exitCode>>
    /\ UNCHANGED <<utfVars, fetchVars, resolveVars>>

\* manufacturer == NULL || product == NULL || serialNumber == NULL
anyNull(values) == \E i \in 1..Len(values) : values[i].isNull

\* Where main() goes on after a device without all three strings (line 290)
afterFailedDevice == "done"

\* Lines 278-291: a string is missing; the strings are freed, the device is
\* released and the loop is left
FailedDevice ==
    /\ pc = "check"
    /\ anyNull(strings)
    /\ diag' = diag \cup {"Failed to retreive one of the string descriptors for the device"}
    /\ log' = Append(log, methodCall("Release"))
    /\ usbDevice' = [usbDevice EXCEPT !.held = FALSE]
    /\ pc' = afterFailedDevice
    /\ exitCode' = IF afterFailedDevice = "done" THEN 0 ELSE exitCode
    /\ UNCHANGED <<iterValid, remaining, taken, strings, printed, summary>>
    /\ UNCHANGED <<utfVars, fetchVars, resolveVars>>

\* Lines 293-297: the summary is printed, the device released, and the loop
\* goes round
FoundDevice ==
    /\ pc = "check"
    /\ ~anyNull(strings)
    /\ summary' = [address |-> usbDevice.address, product |-> strings[2],
                   manufacturer |-> strings[1], serialNumber |-> strings[3]]
    /\ printed' = Append(printed, usbDevice.address)
    /\ log' = Append(log, methodCall("Release"))
    /\ usbDevice' = [usbDevice EXCEPT !.held = FALSE]
    /\ pc' = "loop"
    /\ UNCHANGED <<iterValid, remaining, taken, strings, diag, exitCode>>
    /\ UNCHANGED <<utfVars, fetchVars, resolveVars>>

Next ==
    \/ NoProbesFound
    \/ EnterLoop
    \/ RegistryChanges
    \/ LoopExit
    \/ IteratorExhausted
    \/ OpenDeviceFails
    \/ NextDevice
    \/ WrongDevice
    \/ RightDevice
    \/ ReadInfo
    \/ OpenUsbDevice
    \/ RequestManufacturer
    \/ RequestProduct
    \/ RequestSerialNumber
    \/ CloseUsbDevice
    \/ FailedDevice
    \/ FoundDevice

Spec == Init /\ [][Next]_vars

(***************************************************************************)
(* Properties of the transcoder                                            *)
(***************************************************************************)
Decoded == utf8Result # Pending

InRange(u, lo, hi) == lo <= u /\ u <= hi
\* 0xD800-0xDBFF and 0xDC00-0xDFFF, the UTF-16 surrogate ranges
StdHigh(u) == InRange(u, 55296, 56319)
StdLow(u) == InRange(u, 56320, 57343)

\* The standard UTF-8 form of a code point, by arithmetic
RefBytes(cp) ==
    IF cp <= 127 THEN <<cp>>
    ELSE IF cp <= 2047 THEN <<192 + (cp \div 64), 128 + (cp % 64)>>
    ELSE IF cp <= 65535
    THEN <<224 + (cp \div 4096), 128 + ((cp \div 64) % 64), 128 + (cp % 64)>>
    ELSE <<240 + (cp \div 262144), 128 + ((cp \div 4096) % 64),
           128 + ((cp \div 64) % 64), 128 + (cp % 64)>>

PairCodePoint(h, l) == 65536 + ((h - 55296) * 1024) + (l - 56320)

\* A reference UTF-16 to UTF-8 encoder for well-formed input
RECURSIVE RefEncode(_)
RefEncode(s) ==
    IF s = <<>> THEN <<>>
    ELSE IF StdHigh(s[1]) /\ Len(s) >= 2
    THEN RefBytes(PairCodePoint(s[1], s[2])) \o RefEncode(SubSeq(s, 3, Len(s)))
    ELSE RefBytes(s[1]) \o RefEncode(Tail(s))

NoSurrogates(s) == \A i \in 1..Len(s) : ~InRange(s[i], 55296, 57343)
UnpairedHigh(s) ==
    \E i \in 1..Len(s) : StdHigh(s[i]) /\ (i = Len(s) \/ ~StdLow(s[i + 1]))
UnpairedLow(s) ==
    \E i \in 1..Len(s) : StdLow(s[i]) /\ (i = 1 \/ ~StdHigh(s[i - 1]))

\* C1: a high surrogate 0xD800-0xDBFF followed by a low surrogate
\* 0xDC00-0xDFFF decodes, given storage, to the 4 byte UTF-8 form of
\* 0x10000 + ((h - 0xD800) << 10) + (l - 0xDC00).
C1_PairDecodes ==
    (Decoded /\ utfMallocOk /\ Len(utf16String) = 2
        /\ StdHigh(utf16String[1]) /\ StdLow(utf16String[2]))
    => (~utf8Result.isNull
        /\ utf8Result.bytes = RefBytes(PairCodePoint(utf16String[1], utf16String[2])))

\* C2: every input holding a high surrogate that is not immediately followed
\* by a low surrogate is refused (no string is returned).
C2_UnpairedHighFails ==
    (Decoded /\ UnpairedHigh(utf16String)) => utf8Result.isNull

\* C3: every input holding a low surrogate that is not immediately preceded
\* by a high surrogate is refused (no string is returned).
C3_UnpairedLowFails ==
    (Decoded /\ UnpairedLow(utf16String)) => utf8Result.isNull

RECURSIVE StdSize(_)
StdSize(s) ==
    IF s = <<>> THEN 0
    ELSE (IF s[1] <= 127 THEN 1 ELSE IF s[1] <= 2047 THEN 2 ELSE 3) + StdSize(Tail(s))

C7_Outcome ==
    /\ ~utf8Result.isNull
    /\ Len(utf8Result.bytes) = StdSize(utf16String)
    /\ utf8Result.bytes = RefEncode(utf16String)

\* C7 as stated: every non-empty input without surrogate units decodes, to
\* the standard length and to the bytes of the reference encoder.
C7_NoSurrogatesDecode ==
    (Decoded /\ utf16String # <<>> /\ NoSurrogates(utf16String)) => C7_Outcome

\* C7 amended: every non-empty input without surrogate units decodes whenever
\* malloc() returns storage for the output, to the standard length and to the
\* bytes of the reference encoder.
C7_NoSurrogatesDecodeGivenStorage ==
    (Decoded /\ utfMallocOk /\ utf16String # <<>> /\ NoSurrogates(utf16String))
    => C7_Outcome

\* A decoded input of three units holding a 1, a 2 and a 3 byte character
C7_Witness ==
    /\ Decoded /\ utfMallocOk /\ ~utf8Result.isNull
    /\ Len(utf16String) = 3 /\ NoSurrogates(utf16String)
    /\ \E i, j, k \in 1..3 :
           utf16String[i] <= 127 /\ InRange(utf16String[j], 128, 2047)
           /\ utf16String[k] > 2047

(***************************************************************************)
(* Properties of requestStringDescriptor                                   *)
(***************************************************************************)
FetchDone == fetchOut # Pending

\* The wire buffer as the transfer of the call in fetchOut left it
FetchData ==
    LET wLength == U16((fetchLength * 2) + 2) IN
    deviceRequestData(deviceResponse(fetchOut.kind, fetchDeclared, wLength),
                      wLength, Zeros(DataSize))

\* C6: a successful requestStringDescriptor with count n copies exactly
\* min(declared length, 2n) bytes, from offset 2 of the response on, to the
\* output, and copies no byte at or beyond the offset the device declared in
\* byte 0.
C6_CopyWithinDeclared ==
    (FetchDone /\ fetchOut.call.result = "kIOReturnSuccess")
    => LET n == Min(fetchDeclared, 2 * fetchLength)
           data == FetchData
       IN  /\ fetchOut.call.copied = {2 + k : k \in 0..(n - 1)}
           /\ \A k \in 1..n : fetchOut.call.string[k] = data[2 + k]
           /\ \A offset \in fetchOut.call.copied : offset < fetchDeclared

\* C10: a code-unit count above 127 is refused with kIOReturnBadArgument, no
\* transfer is made and the caller's buffer is left as it was; every count
\* 0..127 is accepted (its transfer is made).
C10_LongCountRefused ==
    FetchDone
    => IF fetchLength > 127
       THEN /\ fetchOut.call.result = "kIOReturnBadArgument"
            /\ fetchOut.call.requests = <<>>
            /\ fetchOut.call.string = Zeros(2 * (fetchLength + 1))
       ELSE /\ Len(fetchOut.call.requests) = 1
            /\ fetchOut.call.result # "kIOReturnBadArgument"

\* A count of 128 was refused while the device would have answered
C10_Witness ==
    /\ FetchDone /\ fetchLength = 128 /\ fetchOut.kind = "ok"
    /\ fetchOut.call.result = "kIOReturnBadArgument"

(***************************************************************************)
(* Properties of requestStringFromDevice                                   *)
(***************************************************************************)
Resolved == resolveOut # Pending

\* "---" as a C string
IsPlaceholder(value) == ~value.isNull /\ value.bytes = <<45, 45, 45, 0>>

\* C4: when the probe and the fetch both succeed and the decode fails,
\* requestStringFromDevice returns the placeholder "---", never a null string.
C4_DecodeFailureGivesPlaceholder ==
    (Resolved /\ resolveOut.exit = "decoded" /\ resolveIn.mallocOk
        /\ resolveOut.decoded.isNull)
    => IsPlaceholder(resolveOut.value)

\* C8: for string index 0 requestStringFromDevice returns the placeholder
\* and makes no control transfer, whatever the device would answer.
C8_IndexZeroNoTransfer ==
    (Resolved /\ resolveIn.index = 0)
    => (IsPlaceholder(resolveOut.value) /\ resolveOut.requests = <<>>)

\* Index 0 was resolved on a device that answers both transfers
C8_Witness ==
    /\ Resolved /\ resolveIn.index = 0
    /\ resolveIn.probe.result = "kIOReturnSuccess"
    /\ resolveIn.fetch.result = "kIOReturnSuccess"
    /\ resolveIn.probe.bytes = <<4, 3, 65, 0>>
    /\ IsPlaceholder(resolveOut.value)

\* The length probe of the call in resolveOut was made and returned 0
ProbeReturnedZero ==
    /\ resolveIn.index # 0
    /\ \/ resolveIn.probe.result # "kIOReturnSuccess"
       \/ Len(resolveIn.probe.bytes) < 2
       \/ resolveIn.probe.bytes[2] # 3
       \/ resolveIn.probe.bytes[1] \in {2, 3}

\* C9: when the length probe returns 0 for a non-zero index,
\* requestStringFromDevice returns the placeholder after exactly one control
\* transfer, the 2 byte probe; no fetch is made.
C9_ZeroLengthOneTransfer ==
    (Resolved /\ ProbeReturnedZero)
    => /\ IsPlaceholder(resolveOut.value)
       /\ Len(resolveOut.requests) = 1
       /\ resolveOut.requests[1].wLength = 2

\* The probe found an empty string descriptor, and the heap and the device
\* would have served a fetch
C9_Witness ==
    /\ Resolved /\ resolveIn.index = 3
    /\ resolveIn.probe = [result |-> "kIOReturnSuccess", bytes |-> <<2, 3>>]
    /\ resolveIn.callocOk /\ resolveIn.fetch.result = "kIOReturnSuccess"
    /\ Len(resolveOut.requests) = 1

(***************************************************************************)
(* Properties of the device loop                                           *)
(***************************************************************************)
\* requestStringFromDevice could not allocate the UTF-16 buffer of a string
\* of the current device
AllocationFailed ==
    "Failed to allocate storage for string from string descriptor" \in diag

\* C5: a device whose string could not be produced for want of storage is
\* released and skipped, and the scan goes on: main() does not end on it while
\* the iterator is valid and still holds services.
C5_ScanGoesOnAfterAllocationFailure ==
    (pc = "done" /\ AllocationFailed /\ iterValid)
    => (~usbDevice.held /\ remaining = 0)

\* wValue of the transfers for string descriptor `index`
wValueOf(index) == BitOr(U16(Shl(kUSBStringDesc, 8)), index)

\* The places in log of the control transfers made for the k-th string of
\* the current device (1 manufacturer, 2 product, 3 serial number)
TransfersOf(k) ==
    LET wValue == wValueOf(usbDevice.indexes[k]) IN
    {i \in 1..Len(log) : log[i].call = "DeviceRequestTO" /\ log[i].wValue = wValue}

\* The transfer failed, or what arrived does not carry the string descriptor tag
TransferFailed(entry) ==
    entry.result # "kIOReturnSuccess" \/ entry.bDescriptorType # kUSBStringDesc

\* The probe or the fetch of the k-th string met a transport error or a wrong tag
StringTransferFailed(k) == \E i \in TransfersOf(k) : TransferFailed(log[i])

\* The loop body has run to its end for the current device's three strings
BodyFinished == pc \in {"loop", "done"} /\ Len(strings) = 3

\* The summary of the current device was printed and the scan went on: main()
\* is back at the loop test, or left the loop by it (iterator no longer valid,
\* or no service left)
SummarisedAndGoingOn ==
    /\ summary = [address |-> usbDevice.address, product |-> strings[2],
                  manufacturer |-> strings[1], serialNumber |-> strings[3]]
    /\ printed # <<>> /\ printed[Len(printed)] = usbDevice.address
    /\ ~usbDevice.held
    /\ pc = "done" => (~iterValid \/ remaining = 0)

\* C11: a failed control transfer or a wrong descriptor tag, in the probe or
\* in the fetch, makes the string it was for the placeholder "---"; the
\* device's other strings are still requested, and unless one of them is
\* NULL the summary is printed with the placeholder in it and the scan goes
\* on to the next device.
C11_TransferFailureGivesPlaceholder ==
    LET failed == [k \in 1..3 |-> StringTransferFailed(k)] IN
    /\ \A k \in 1..Len(strings) : failed[k] => IsPlaceholder(strings[k])
    /\ \A k \in 1..3 :
           (failed[k] /\ pc \notin {"manufacturer", "product", "serialNumber"})
           => Len(strings) = 3
    /\ (BodyFinished /\ (\E k \in 1..3 : failed[k]) /\ ~anyNull(strings))
       => SummarisedAndGoingOn

\* The manufacturer's probe timed out, the product's fetch brought a wrong
\* tag, the serial number was decoded; the summary was printed and another
\* service waits in the iterator
C11_Witness ==
    /\ pc = "loop" /\ Len(strings) = 3 /\ remaining > 0 /\ iterValid
    /\ usbDevice.indexes = <<1, 2, 3>>
    /\ \E i \in TransfersOf(1) : log[i].result = "kIOReturnTimeout" /\ log[i].wLength = 2
    /\ \E i \in TransfersOf(2) :
           /\ log[i].wLength > 2 /\ log[i].result = "kIOReturnSuccess"
           /\ log[i].bDescriptorType = 2
    /\ IsPlaceholder(summary.manufacturer) /\ IsPlaceholder(summary.product)
    /\ summary.serialNumber.bytes = <<65, 0>>
    /\ printed = <<usbDevice.address>>

(***************************************************************************)
(* Properties of requestStringLength                                       *)
(***************************************************************************)
\* What the probe is to return for the answer of the device: 0 for a failed
\* transfer, another tag or a declared length below 2, (byte0 - 2) / 2
\* otherwise
ExpectedProbeLength(response) ==
    IF response.result # "kIOReturnSuccess" \/ Len(response.bytes) < 2 THEN 0
    ELSE IF response.bytes[2] # kUSBStringDesc \/ response.bytes[1] < 2 THEN 0
    ELSE (response.bytes[1] - 2) \div 2

\* C12: requestStringLength returns 0 when the transfer fails, the tag is
\* not the string descriptor tag or the declared length is below 2, and
\* (byte0 - 2) / 2 otherwise; its result always lies in 0..126.
C12_ProbeLengthInRange ==
    (Resolved /\ resolveIn.index # 0)
    => /\ resolveOut.length = ExpectedProbeLength(resolveIn.probe)
       /\ resolveOut.length \in 0..126

(***************************************************************************)
(* Properties of requestStringFromDevice, continued                        *)
(***************************************************************************)
\* Every surrogate of s is half of a pair
WellFormed(s) == ~UnpairedHigh(s) /\ ~UnpairedLow(s)

\* The answer of a device that holds the string s
DescriptorAnswer(s) == [result |-> "kIOReturnSuccess", bytes |-> stringDescriptor(s)]

\* C13: when the probe gives a count n in 1..126 and the fetch brings a valid
\* string descriptor of n well-formed UTF-16 units, requestStringFromDevice
\* returns, given storage, the UTF-8 encoding of those units as a NUL
\* terminated string and makes exactly two control transfers.
C13_WellFormedStringDecodes ==
    \A s \in StringSamples :
        (Resolved /\ resolveIn.index # 0 /\ Len(s) \in 1..126 /\ WellFormed(s)
            /\ resolveIn.probe = DescriptorAnswer(s) /\ resolveIn.fetch = DescriptorAnswer(s)
            /\ resolveIn.callocOk /\ resolveIn.mallocOk)
        => /\ ~resolveOut.value.isNull
           /\ resolveOut.value.bytes = RefEncode(s) \o <<0>>
           /\ Len(resolveOut.requests) = 2

(***************************************************************************)
(* Properties of the transcoder, continued                                 *)
(***************************************************************************)
\* C14: utf8FromUtf16 on an empty input returns NULL; a successful decode
\* returns a block of at least one byte.
C14_EmptyInputFails ==
    Decoded
    => /\ utf16String = <<>> => utf8Result.isNull
       /\ ~utf8Result.isNull => (Len(utf8Result.bytes) >= 1 /\ utf8Result.written >= 1)

\* The empty input was refused although malloc() would have served
C14_Witness ==
    Decoded /\ utf16String = <<>> /\ utfMallocOk /\ utf8Result.isNull

(***************************************************************************)
(* Properties of the device loop, continued                                *)
(***************************************************************************)
OpenFailed == "Error while opening USB device" \in diag
CloseFailed == "Error while closing USB device" \in diag

\* The place of the call `name` in log, 0 when it was not made
PlaceOf(name) ==
    IF \E i \in 1..Len(log) : log[i].call = name
    THEN CHOOSE i \in 1..Len(log) : log[i].call = name
    ELSE 0

\* The strings requested so far were asked of the device after USBDeviceOpen
\* and in the order manufacturer, product, serial number; each of them with
\* a non-zero index by at least one transfer
StringsRequestedInOrder ==
    LET transfers == [k \in 1..Len(strings) |-> TransfersOf(k)]
        opened == PlaceOf("USBDeviceOpen")
    IN
    /\ \A k \in 1..Len(strings) :
           /\ usbDevice.indexes[k] # 0 => transfers[k] # {}
           /\ \A i \in transfers[k] : opened \in 1..(i - 1)
    /\ \A k, j \in 1..Len(strings) :
           k < j => \A i \in transfers[k], h \in transfers[j] : i < h

\* C15: when USBDeviceOpen or USBDeviceClose fails, the failure is printed
\* and nothing else: the three strings of the device are still requested,
\* manufacturer, product, serial number in that order, and unless one of
\* them is NULL the summary is printed and the scan goes on.
C15_OpenCloseFailureOnlyReported ==
    /\ (OpenFailed /\ pc \notin {"manufacturer", "product", "serialNumber"})
       => Len(strings) = 3
    /\ CloseFailed => Len(strings) = 3
    /\ (OpenFailed \/ CloseFailed) => StringsRequestedInOrder
    /\ (BodyFinished /\ (OpenFailed \/ CloseFailed) /\ ~anyNull(strings))
       => SummarisedAndGoingOn
    /\ (pc = "done" /\ (OpenFailed \/ CloseFailed)) => exitCode = 0

\* Both the open and the close of a device failed; its three strings were
\* decoded and its summary printed
C15_Witness ==
    /\ pc = "loop" /\ OpenFailed /\ CloseFailed /\ Len(strings) = 3
    /\ usbDevice.indexes = <<1, 2, 3>>
    /\ \A k \in 1..3 : strings[k].bytes = <<65, 0>>
    /\ summary.address = usbDevice.address /\ summary.product = strings[2]
    /\ printed = <<usbDevice.address>>

\* C16: for every input the size pass accepts, the encode pass writes
\* exactly countUnits(input) bytes, each of them inside the block malloc()
\* returned, filling it, and reads the input only below its length.
C16_PassesAgree ==
    LET utf8Length == countUnits(utf16String, Len(utf16String)) IN
    (Decoded /\ utfMallocOk /\ utf8Length # 0)
    => /\ ~utf8Result.isNull
       /\ Len(utf8Result.bytes) = utf8Length
       /\ utf8Result.written = utf8Length
       /\ utf8Result.end = utf8Length
       /\ ~utf8Result.oobWrite
       /\ ~utf8Result.oobRead
       /\ \A i \in 1..utf8Length : utf8Result.bytes[i] # Uninit

\* A surrogate pair followed by a 3 byte character was encoded in 7 bytes
C16_Witness ==
    /\ Decoded /\ utf16String = <<55296, 56320, 2048>>
    /\ ~utf8Result.isNull /\ utf8Result.written = 7

(***************************************************************************)
(* Properties of requestStringDescriptor, continued                        *)
(***************************************************************************)
\* What utf8FromUtf16(utf16String, length + 1U) makes of the buffer the call
\* in fetchOut left (src/bmpiokit.c line 210), given storage
FetchedDecoded(wild) ==
    utf8FromUtf16(unitsOf(fetchOut.call.string), fetchLength + 1, TRUE, wild)

\* C17: requestStringDescriptor with count n moves at most 2n bytes into the
\* caller's buffer of n + 1 units and none beyond it, whatever the device
\* answers, and leaves the buffer alone when it fails; so the last unit of
\* the buffer stays zero, and the string decoded from the buffer ends with a
\* NUL byte.
C17_CopyWithinCount ==
    FetchDone
    => LET string == fetchOut.call.string IN
       /\ Len(string) = 2 * (fetchLength + 1)
       /\ ~fetchOut.call.overflow
       /\ Cardinality(fetchOut.call.copied) <= 2 * fetchLength
       /\ string[(2 * fetchLength) + 1] = 0 /\ string[(2 * fetchLength) + 2] = 0
       /\ fetchOut.call.result # "kIOReturnSuccess" => string = Zeros(2 * (fetchLength + 1))
       /\ (fetchOut.call.result = "kIOReturnSuccess" /\ fetchLength <= MaxDecoded)
          => \A wild \in WildUnits :
                 LET decoded == FetchedDecoded(wild) IN
                 ~decoded.isNull
                 => /\ decoded.bytes[Len(decoded.bytes)] = 0
                    /\ ~decoded.oobRead /\ ~decoded.oobWrite

\* A device declaring 255 bytes answered a fetch of 3 units in full: the 3
\* units were filled, the 4th stayed zero, and the buffer decodes to 8 bytes
\* and a NUL
C17_Witness ==
    /\ FetchDone /\ fetchLength = 3 /\ fetchDeclared = 255 /\ fetchOut.kind = "okFull"
    /\ fetchOut.call.result = "kIOReturnSuccess"
    /\ \A k \in 1..6 : fetchOut.call.string[k] # 0
    /\ fetchOut.call.string[7] = 0 /\ fetchOut.call.string[8] = 0
    /\ ~FetchedDecoded(0).isNull /\ Len(FetchedDecoded(0).bytes) = 9

(***************************************************************************)
(* Properties of the device loop: the order of the calls                   *)
(***************************************************************************)
\* The current device reported other ids than the Black Magic Probe's and
\* was released
WrongDeviceReleased ==
    /\ idsDiffer(usbDevice.vid, usbDevice.pid)
    /\ Len(log) = 3 /\ log[3].call = "Release"
    /\ ~usbDevice.held

\* C18: a device with another vendor or product id is released and the scan
\* goes on to the next device: main() does not end on it while the iterator
\* is valid and still holds services.
C18_ScanGoesOnAfterWrongDevice ==
    (pc = "done" /\ WrongDeviceReleased /\ iterValid) => remaining = 0

(***************************************************************************)
(* Properties of the transfers' sizes                                      *)
(***************************************************************************)
\* The probe requestStringLength makes of the device of the call in fetchOut
FetchProbe ==
    requestStringLength(deviceResponse(fetchOut.kind, fetchDeclared, 2), FetchIndex)

\* C19: the fetch of an accepted count (0..127) is one transfer of exactly
\* count * 2 + 2 bytes, never more than the 256 bytes of the wire buffer (no
\* transfer is made for another count); the copy reads offsets
\* 2 .. 2 + min(byte0, count * 2) - 1, all inside the buffer; the probe is
\* one transfer of exactly 2 bytes.
C19_TransfersWithinBuffer ==
    FetchDone
    => /\ IF fetchLength \in 0..127
          THEN /\ Len(fetchOut.call.requests) = 1
               /\ fetchOut.call.requests[1].wLength = (fetchLength * 2) + 2
               /\ fetchOut.call.requests[1].wLength <= DataSize
          ELSE fetchOut.call.requests = <<>>
       /\ fetchOut.call.result = "kIOReturnSuccess"
          => /\ fetchOut.call.copied =
                    {2 + k : k \in 0..(Min(FetchData[1], fetchLength * 2) - 1)}
             /\ fetchOut.call.copied \subseteq 0..(DataSize - 1)
             /\ ~fetchOut.call.overflow
       /\ Len(FetchProbe.requests) = 1
       /\ FetchProbe.requests[1].wLength = 2

\* The longest count was fetched from a device that declares 255 bytes: 256
\* bytes were asked for and the last byte of the wire buffer was copied
C19_Witness ==
    /\ FetchDone /\ fetchLength = 127 /\ fetchDeclared = 255 /\ fetchOut.kind = "okFull"
    /\ fetchOut.call.result = "kIOReturnSuccess"
    /\ fetchOut.call.requests[1].wLength = 256
    /\ 255 \in fetchOut.call.copied

\* The calls main() makes on a Black Magic Probe before its first transfer
CallsBeforeStrings ==
    <<"GetDeviceVendor", "GetDeviceProduct", "GetDeviceAddress",
      "USBGetManufacturerStringIndex", "USBGetProductStringIndex",
      "USBGetSerialNumberStringIndex", "USBDeviceOpen">>

\* Where main() holds an interface it has yet to release
InLoopBody ==
    pc \in {"vidpid", "info", "open", "manufacturer", "product", "serialNumber", "close",
            "check"}

\* The calls of log from the first transfer on come as transfers, then
\* USBDeviceClose, then Release
StageOf(call) ==
    IF call = "DeviceRequestTO" THEN 1 ELSE IF call = "USBDeviceClose" THEN 2
    ELSE IF call = "Release" THEN 3 ELSE 0

\* log[i] is a fetch: it follows at once the probe of the same string, which
\* succeeded with the string descriptor tag, and asks for the probed count
FetchFollowsItsProbe(i) ==
    /\ i > 1
    /\ log[i - 1].call = "DeviceRequestTO" /\ log[i - 1].wLength = 2
    /\ log[i - 1].wValue = log[i].wValue
    /\ ~TransferFailed(log[i - 1])
    /\ lengthInUnits(log[i - 1].bLength) >= 1
    /\ log[i].wLength = (2 * lengthInUnits(log[i - 1].bLength)) + 2

\* C20: on every device interface the calls come in the order vendor and
\* product read, address and string index reads, USBDeviceOpen, control
\* transfers (string by string, a fetch only after the successful probe of
\* the same index and with the probed count), USBDeviceClose, Release;
\* Release is called exactly once on every path through the loop body and is
\* the last call on the interface; the next service is taken from the
\* iterator only when the interface of the one before is released.
C20_CallOrder ==
    LET n == Len(log)
        first == Len(CallsBeforeStrings)
        wrong == n >= 3 /\ log[3].call = "Release"
    IN
    /\ \A i \in 1..Min(n, 2) : log[i].call = CallsBeforeStrings[i]
    /\ wrong => (n = 3 /\ idsDiffer(usbDevice.vid, usbDevice.pid))
    /\ ~wrong => \A i \in 3..Min(n, first) : log[i].call = CallsBeforeStrings[i]
    /\ ~wrong => \A i \in (first + 1)..n :
                     /\ StageOf(log[i].call) > 0
                     /\ i > first + 1 => StageOf(log[i - 1].call) <= StageOf(log[i].call)
                     /\ StageOf(log[i].call) > 1
                        => StageOf(log[i - 1].call) = StageOf(log[i].call) - 1
                           \/ (i = first + 1 /\ StageOf(log[i].call) = 2)
    /\ \A i \in 1..n :
           /\ log[i].call = "USBDeviceClose" => Len(strings) = 3
           /\ log[i].call = "Release" => i = n
           /\ (log[i].call = "DeviceRequestTO" /\ log[i].wLength # 2)
              => FetchFollowsItsProbe(i)
    /\ StringsRequestedInOrder
    /\ InLoopBody <=> usbDevice.held
    /\ usbDevice.held => (usbDevice.address = taken /\ \A i \in 1..n : log[i].call # "Release")
    /\ (~InLoopBody /\ n > 0) => (log[n].call = "Release" /\ usbDevice.address = taken)

\* The second of two devices was taken after the first was released, went
\* through a probe and a fetch for each of its strings and was released
C20_Witness ==
    /\ pc = "loop" /\ taken = 2 /\ printed = <<1, 2>> /\ ~usbDevice.held
    /\ Len(log) = 15
    /\ \A k \in 1..3 : Cardinality(TransfersOf(k)) = 2
    /\ log[14].call = "USBDeviceClose" /\ log[15].call = "Release"

====
